---- MODULE Spec2Model ----
(***************************************************************************)
(* The hauler onboarding wizard of src/src/pages/Index.tsx (component      *)
(* Index): the step index, the react-hook-form draft validated by the zod  *)
(* formSchema, the derived eligibility status, the goNext / goBack /       *)
(* stepper / submit handlers and the trucks array resized by useEffect.    *)
(*                                                                         *)
(* Text values are sequences of one-character strings so that the length   *)
(* and pattern checks of the schema are computed, not assumed.  Capacities *)
(* are whole tons.  Truck indices are 0-based as in the source; the TLA+   *)
(* sequence draft.trucks is 1-based, so entry i of the source is           *)
(* draft.trucks[i + 1].                                                    *)
(***************************************************************************)
EXTENDS Integers, Sequences, FiniteSets

VARIABLES
    step,                \* useState(0): index into steps
    isSuccess,           \* useState(false)
    showEligibilityModal,\* useState(false)
    currentTruckIndex,   \* useState(0)
    draft,               \* the form values held by useForm
    eligibilityStatus,   \* the useMemo value of the last render
    pending,             \* goNext invocations suspended at `await trigger(...)`
    inserts,             \* backend insert calls issued by the wizard
    lastOp,              \* the handler that ran last and how it ended
    table,               \* the rows of onboarding_applications, by id
    search,              \* AdminDashboard: useState("")
    status,              \* AdminDashboard: useState("all")
    sort,                \* AdminDashboard: useState({field, dir})
    selected,            \* AdminDashboard: useState({}), id -> boolean
    data,                \* useQuery data of the current key (<<>> while undefined)
    isLoading,           \* useQuery: no data yet for the current key
    isFetching,          \* useQuery: a fetch of the current key is in flight
    updates,             \* update calls bulkUpdateStatus is awaiting
    updateCalls,         \* update calls issued so far
    toast,               \* the last notification shown
    events,              \* postgres_changes events not yet delivered
    csv,                 \* the text of the last CSV export
    now,                 \* the backend's clock
    session,             \* the auth client's current session (its user id)
    loading,             \* ProtectedAdminRoute: useState(true)
    isAdmin,             \* ProtectedAdminRoute: useState(false)
    lookups,             \* role lookups scheduled or in flight
    output,              \* what the gate's last committed render shows
    mounted,             \* the gate is still on the page
    answer               \* the role lookup that resolved last, and its result

wizardVars == <<step, isSuccess, showEligibilityModal, currentTruckIndex, draft,
                eligibilityStatus, pending, inserts>>

adminVars == <<table, search, status, sort, selected, data, isLoading,
               isFetching, updates, updateCalls, toast, events, csv, now>>

gateVars == <<session, loading, isAdmin, lookups, output, mounted, answer>>

vars == <<wizardVars, lastOp, adminVars, gateVars>>

-----------------------------------------------------------------------------
(* Bounds of the model. *)

\* Trucks the model lets the counter reach (the program's own limit is TruckLimit).
MaxTrucks == 3
\* Files the model lets the user attach as vehicle documents.
MaxDocs == 1

-----------------------------------------------------------------------------
(* Values. *)

Undefined == "undefined"
Min(a, b) == IF a <= b THEN a ELSE b
Max(a, b) == IF a >= b THEN a ELSE b

Digits == {"0", "1", "2", "3", "4", "5", "6", "7", "8", "9"}
NonZeroDigits == Digits \ {"0"}

\* steps.length - 1
LastStep == 4
\* Math.min(10, ...) of the plus button
TruckLimit == 10
\* the bounds of the eligibility rule and of loadCapacity
MinCapacity == 1
MaxCapacity == 15

BlankTruck ==
    [vehicleType |-> <<>>, loadCapacity |-> 1, registrationNumber |-> <<>>]

defaultValues ==
    [ownsVehicle |-> Undefined,
     eligibilityCapacityTons |-> 0,
     hasRequiredDocs |-> Undefined,
     fullName |-> <<>>,
     idNumber |-> <<>>,
     entityType |-> "individual",
     businessName |-> <<>>,
     cipcNumber |-> <<>>,
     mobile |-> <<>>,
     email |-> <<>>,
     address |-> <<>>,
     province |-> <<>>,
     numberOfTrucks |-> 1,
     trucks |-> <<BlankTruck>>,
     vehicleDocuments |-> <<>>,
     bankName |-> <<>>,
     accountHolder |-> <<>>,
     accountNumber |-> <<>>,
     accountType |-> Undefined,
     branchCode |-> <<>>,
     proofOfBank |-> Undefined,
     acceptTerms |-> Undefined,
     consentStore |-> Undefined,
     consentContact |-> Undefined]

fieldsByStep ==
    <<{"ownsVehicle", "eligibilityCapacityTons", "hasRequiredDocs"},
      {"fullName", "idNumber", "entityType", "businessName", "cipcNumber",
       "mobile", "email", "address", "province"},
      {"numberOfTrucks", "trucks", "vehicleDocuments"},
      {"bankName", "accountHolder", "accountNumber", "accountType",
       "branchCode", "proofOfBank"},
      {"acceptTerms", "consentStore", "consentContact"}>>

\* fieldsByStep[step] with the source's 0-based step
StepFields(s) == fieldsByStep[s + 1]

-----------------------------------------------------------------------------
(* formSchema: the zod checks, field by field. *)

AllIn(s, chars) == \A i \in 1..Len(s) : s[i] \in chars

\* PHONE_REGEX = /^(?:\+27|0)[1-9][0-9]{8}$/
MatchesPhone(s) ==
    \/ /\ Len(s) = 10
       /\ s[1] = "0"
       /\ s[2] \in NonZeroDigits
       /\ \A i \in 3..10 : s[i] \in Digits
    \/ /\ Len(s) = 12
       /\ s[1] = "+" /\ s[2] = "2" /\ s[3] = "7"
       /\ s[4] \in NonZeroDigits
       /\ \A i \in 5..12 : s[i] \in Digits

\* z.string().email(): one "@", a non-empty local part, a dotted domain
MatchesEmail(s) ==
    \E at \in 1..Len(s) :
        /\ s[at] = "@"
        /\ \A i \in 1..Len(s) : s[i] = "@" => i = at
        /\ at > 1
        /\ \E dot \in (at + 2)..(Len(s) - 1) : s[dot] = "."
        /\ s[Len(s)] # "." /\ s[at + 1] # "."

\* /^\d{8,13}$/
MatchesAccountNumber(s) == Len(s) >= 8 /\ Len(s) <= 13 /\ AllIn(s, Digits)

\* /^\d{6}$/
MatchesBranchCode(s) == Len(s) = 6 /\ AllIn(s, Digits)

\* one element of the trucks array
TruckValid(t) ==
    /\ Len(t.vehicleType) >= 2
    /\ t.loadCapacity >= MinCapacity /\ t.loadCapacity <= MaxCapacity
    /\ Len(t.registrationNumber) >= 3

\* Fields whose value has the wrong type for the schema (an enum left
\* undefined): zod reports invalid_type and aborts the object.
TypeErrors(d) ==
    {f \in {"ownsVehicle", "hasRequiredDocs"} : d[f] \notin {"yes", "no"}}
    \cup {f \in {"entityType"} : d[f] \notin {"individual", "business"}}
    \cup {f \in {"accountType"} : d[f] \notin {"cheque", "savings", "business"}}
    \cup {f \in {"acceptTerms", "consentStore", "consentContact"} : d[f] # "yes"}

\* Fields whose value has the right type and fails a check of z.object({...}).
CheckErrors(d) ==
    {f \in {"fullName"} : Len(d.fullName) < 2}
    \cup {f \in {"idNumber"} : Len(d.idNumber) < 5}
    \cup {f \in {"mobile"} : ~MatchesPhone(d.mobile)}
    \cup {f \in {"email"} : ~MatchesEmail(d.email)}
    \cup {f \in {"address"} : Len(d.address) < 5}
    \cup {f \in {"province"} : Len(d.province) < 2}
    \cup {f \in {"numberOfTrucks"} : d.numberOfTrucks < 1}
    \cup {f \in {"trucks"} :
            \/ Len(d.trucks) < 1
            \/ \E i \in 1..Len(d.trucks) : ~TruckValid(d.trucks[i])}
    \cup {f \in {"vehicleDocuments"} : Len(d.vehicleDocuments) < 1}
    \cup {f \in {"bankName"} : Len(d.bankName) < 2}
    \cup {f \in {"accountHolder"} : Len(d.accountHolder) < 2}
    \cup {f \in {"accountNumber"} : ~MatchesAccountNumber(d.accountNumber)}
    \cup {f \in {"branchCode"} : ~MatchesBranchCode(d.branchCode)}

\* The three .refine(...) of the schema, each reported at its path.
RefineErrors(d) ==
    {f \in {"businessName"} :
        d.entityType = "business" /\ ~(Len(d.businessName) > 1)}
    \cup {f \in {"cipcNumber"} :
        d.entityType = "business" /\ ~(Len(d.cipcNumber) > 1)}
    \cup {f \in {"eligibilityCapacityTons"} :
        ~(d.eligibilityCapacityTons >= MinCapacity
          /\ d.eligibilityCapacityTons <= MaxCapacity)}

\* zodResolver(formSchema): the refinements run only on an object whose
\* fields all parsed (none aborted by a type error).
SchemaErrors(d) ==
    TypeErrors(d) \cup CheckErrors(d)
    \cup (IF TypeErrors(d) = {} THEN RefineErrors(d) ELSE {})

\* trigger(names): valid iff none of the named fields carries an error.
TriggerValid(names, d) == names \cap SchemaErrors(d) = {}

\* handleSubmit: onSubmit is called iff the whole schema has no error.
SubmitValid(d) == SchemaErrors(d) = {}

-----------------------------------------------------------------------------
(* eligibilityStatus (useMemo). *)

ReasonDriverOnly == "Reject: Driver only not allowed"
ReasonTruckSize == "Reject: Invalid truck size"
ReasonMissingDocs == "Reject: Missing roadworthy or insurance"

EligibilityStatusNoDocsRule(ownsVehicle, eligCap, hasDocs) ==
    IF ownsVehicle # "yes"
    THEN [ok |-> FALSE, reason |-> ReasonDriverOnly]
    ELSE IF ~(eligCap >= MinCapacity /\ eligCap <= MaxCapacity)
    THEN [ok |-> FALSE, reason |-> ReasonTruckSize]
    ELSE [ok |-> TRUE, reason |-> Undefined]

EligibilityStatusCapacityFirst(ownsVehicle, eligCap, hasDocs) ==
    IF ~(eligCap >= MinCapacity /\ eligCap <= MaxCapacity)
    THEN [ok |-> FALSE, reason |-> ReasonTruckSize]
    ELSE IF ownsVehicle # "yes"
    THEN [ok |-> FALSE, reason |-> ReasonDriverOnly]
    ELSE IF hasDocs # "yes"
    THEN [ok |-> FALSE, reason |-> ReasonMissingDocs]
    ELSE [ok |-> TRUE, reason |-> Undefined]

EligibilityStatus(ownsVehicle, eligCap, hasDocs) ==
    IF ownsVehicle # "yes"
    THEN [ok |-> FALSE, reason |-> ReasonDriverOnly]
    ELSE IF ~(eligCap >= MinCapacity /\ eligCap <= MaxCapacity)
    THEN [ok |-> FALSE, reason |-> ReasonTruckSize]
    ELSE IF hasDocs # "yes"
    THEN [ok |-> FALSE, reason |-> ReasonMissingDocs]
    ELSE [ok |-> TRUE, reason |-> Undefined]

\* the value the memo takes when the component renders with draft d
Render(d) ==
    EligibilityStatus(d.ownsVehicle, d.eligibilityCapacityTons,
                      d.hasRequiredDocs)

-----------------------------------------------------------------------------
(* What the user can enter.  Each field takes its values from a small set;  *)
(* the text inputs of a section are filled top to bottom.                   *)

SampleName == <<"A", "l">>
SampleId == <<"1", "2", "3", "4", "5">>
SampleMobile == <<"0", "8", "2", "1", "2", "3", "4", "5", "6", "7">>
SampleEmail == <<"a", "@", "b", ".", "c">>
SampleAddress == <<"1", " ", "E", "l", "m">>
SampleProvince == <<"G", "a", "u", "t", "e", "n", "g">>
SampleBank == <<"F", "N", "B">>
SampleAccount == <<"1", "2", "3", "4", "5", "6", "7", "8">>
SampleBranch == <<"2", "5", "0", "6", "5", "5">>
SampleVehicleType == <<"O", "t", "h", "e", "r">>
SampleRegistration == <<"C", "A", "1">>
SampleFile == "file"

\* the values the user gives a top-level field
Samples(f) ==
    CASE f = "ownsVehicle" -> {"yes", "no"}
      [] f = "eligibilityCapacityTons" -> {8, 16}
      [] f = "hasRequiredDocs" -> {"yes", "no"}
      [] f = "fullName" -> {SampleName}
      [] f = "idNumber" -> {SampleId}
      [] f = "entityType" -> {"individual", "business"}
      [] f = "businessName" -> {<<"A">>, <<"A", "b">>}
      [] f = "cipcNumber" -> {<<"1", "2">>}
      [] f = "mobile" -> {SampleMobile}
      [] f = "email" -> {SampleEmail}
      [] f = "address" -> {SampleAddress}
      [] f = "province" -> {SampleProvince}
      [] f = "bankName" -> {SampleBank}
      [] f = "accountHolder" -> {SampleName}
      [] f = "accountNumber" -> {SampleAccount}
      [] f = "accountType" -> {"savings"}
      [] f = "branchCode" -> {SampleBranch}
      [] f \in {"acceptTerms", "consentStore", "consentContact"} -> {"yes"}
      [] OTHER -> {}

\* the text inputs of a section, in the order they are laid out
TextInputs ==
    <<<<>>,
      <<"fullName", "idNumber", "mobile", "email", "address", "province">>,
      <<>>,
      <<"bankName", "accountHolder", "accountNumber", "branchCode">>,
      <<>>>>

FilledBefore(f, d, s) ==
    LET inputs == TextInputs[s + 1]
    IN  \A k \in 1..Len(inputs) :
            inputs[k] = f => \A j \in 1..(k - 1) : d[inputs[j]] # <<>>

\* the top-level fields the section of step s renders for draft d
Rendered(s, d) ==
    {f \in StepFields(s) :
        f \in {"businessName", "cipcNumber"} => d.entityType = "business"}

-----------------------------------------------------------------------------
(* The trucks array and the effect that resizes it. *)

Blanks(k) == [i \in 1..k |-> BlankTruck]

ResizeTrucksFromFront(trucks, numberOfTrucks) ==
    IF numberOfTrucks > Len(trucks)
    THEN trucks \o Blanks(numberOfTrucks - Len(trucks))
    ELSE IF numberOfTrucks < Len(trucks)
    THEN SubSeq(trucks, Len(trucks) - numberOfTrucks + 1, Len(trucks))
    ELSE trucks

\* currentTrucks after the push loop or the splice of the effect
ResizeTrucks(trucks, numberOfTrucks) ==
    IF numberOfTrucks > Len(trucks)
    THEN trucks \o Blanks(numberOfTrucks - Len(trucks))
    ELSE IF numberOfTrucks < Len(trucks)
    THEN SubSeq(trucks, 1, numberOfTrucks)
    ELSE trucks

EffectDraftSkipped(d) == d

\* the draft after useEffect([numberOfTrucks, setValue, currentTruckIndex])
EffectDraft(d) ==
    IF d.numberOfTrucks # 0
    THEN [d EXCEPT !.trucks = ResizeTrucks(d.trucks, d.numberOfTrucks)]
    ELSE d

EffectIndexKept(d, cti) == cti

\* currentTruckIndex after the effect
EffectIndex(d, cti) ==
    IF d.numberOfTrucks # 0 /\ cti >= d.numberOfTrucks THEN 0 ELSE cti

SpliceLast(trucks, i) == SubSeq(trucks, 1, Len(trucks) - 1)

\* currentTrucks.splice(i, 1) with the source's 0-based i
Splice(trucks, i) ==
    SubSeq(trucks, 1, i) \o SubSeq(trucks, i + 2, Len(trucks))

isTruckCompleteWithCapacity(truck) ==
    /\ truck.vehicleType # <<>> /\ truck.registrationNumber # <<>>
    /\ truck.loadCapacity >= MinCapacity

\* isTruckComplete
isTruckComplete(truck) ==
    truck.vehicleType # <<>> /\ truck.registrationNumber # <<>>

-----------------------------------------------------------------------------
(* Init: the component after its first render. *)

\* the dashboard is not mounted while the wizard is: its state stays as
\* AdminDashboard's useState initialisers leave it, with an empty table
AdminUnmounted ==
    /\ table = <<>>
    /\ search = <<>>
    /\ status = "all"
    /\ sort = [field |-> "submitted_at", dir |-> "desc"]
    /\ selected = <<>>
    /\ data = <<>>
    /\ isLoading = FALSE
    /\ isFetching = FALSE
    /\ updates = <<>>
    /\ updateCalls = 0
    /\ toast = "none"
    /\ events = 0
    /\ csv = <<>>
    /\ now = 0

\* the admin gate is not on the page
GateUnmounted ==
    /\ session = "none"
    /\ loading = TRUE
    /\ isAdmin = FALSE
    /\ lookups = <<>>
    /\ output = "nothing"
    /\ mounted = FALSE
    /\ answer = [user |-> "none", ok |-> FALSE]

Init ==
    /\ step = 0
    /\ isSuccess = FALSE
    /\ showEligibilityModal = FALSE
    /\ currentTruckIndex = 0
    /\ draft = defaultValues
    /\ eligibilityStatus = Render(defaultValues)
    /\ pending = <<>>
    /\ inserts = 0
    /\ lastOp = "mount"
    /\ AdminUnmounted
    /\ GateUnmounted

-----------------------------------------------------------------------------
(* Handlers. *)

\* field.onChange of a top-level field of the section shown
FieldChange(f, v) ==
    /\ ~isSuccess
    /\ f \in Rendered(step, draft)
    /\ v # draft[f]
    /\ FilledBefore(f, draft, step)
    /\ draft' = [draft EXCEPT ![f] = v]
    /\ eligibilityStatus' = Render(draft')
    /\ lastOp' = "change"
    /\ UNCHANGED <<adminVars, gateVars, step, isSuccess, showEligibilityModal, currentTruckIndex,
                   pending, inserts>>

\* the 0-based indices of the trucks goNext finds incomplete
IncompleteTrucks(d) ==
    {i \in 0..(d.numberOfTrucks - 1) :
        \/ d.trucks[i + 1].vehicleType = <<>>
        \/ d.trucks[i + 1].registrationNumber = <<>>}

SetMin(S) == CHOOSE x \in S : \A y \in S : x <= y

\* goNext up to `await trigger(fieldsByStep[step])`: the vehicle step's own
\* checks, then the validation, whose result the continuation receives.
GoNextCall ==
    /\ ~isSuccess
    /\ step < LastStep
    /\ ~(step = 0 /\ ~eligibilityStatus.ok)
    /\ IF step = 2 /\ Len(draft.trucks) # draft.numberOfTrucks
       THEN /\ lastOp' = "lengthMismatch"
            /\ UNCHANGED <<currentTruckIndex, pending>>
       ELSE IF step = 2 /\ IncompleteTrucks(draft) # {}
       THEN /\ currentTruckIndex' = SetMin(IncompleteTrucks(draft))
            /\ lastOp' = "incomplete"
            /\ UNCHANGED pending
       ELSE IF step = 2 /\ Len(draft.vehicleDocuments) = 0
       THEN /\ lastOp' = "noDocuments"
            /\ UNCHANGED <<currentTruckIndex, pending>>
       ELSE /\ pending' = Append(pending,
                            [step |-> step,
                             ok |-> eligibilityStatus.ok,
                             valid |-> TriggerValid(StepFields(step), draft)])
            /\ lastOp' = "validating"
            /\ UNCHANGED currentTruckIndex
    /\ UNCHANGED <<adminVars, gateVars, step, isSuccess, showEligibilityModal, draft,
                   eligibilityStatus, inserts>>

\* the Continue button, one invocation at a time
GoNext == pending = <<>> /\ GoNextCall

\* setStep((s) => Math.min(s + 1, steps.length - 1))
NextStepNoValidation(s, call) ==
    IF call.step = 0 /\ ~call.ok THEN s ELSE Min(s + 1, LastStep)

\* the step index the continuation of goNext leaves
NextStep(s, call) ==
    IF ~call.valid THEN s
    ELSE IF call.step = 0 /\ ~call.ok THEN s
    ELSE Min(s + 1, LastStep)

\* goNext after `await trigger(...)` resolves
GoNextResolve ==
    /\ pending # <<>>
    /\ LET call == Head(pending)
       IN  /\ step' = NextStep(step, call)
           /\ showEligibilityModal' =
                IF call.valid /\ call.step = 0 /\ ~call.ok
                THEN TRUE ELSE showEligibilityModal
           /\ lastOp' = IF ~call.valid THEN "invalid"
                        ELSE IF call.step = 0 /\ ~call.ok THEN "ineligible"
                        ELSE "advanced"
    /\ pending' = Tail(pending)
    /\ UNCHANGED <<adminVars, gateVars, isSuccess, currentTruckIndex, draft, eligibilityStatus,
                   inserts>>

BackStepMinForMax(s) == Min(0, s - 1)

\* (s) => Math.max(0, s - 1)
BackStep(s) == Max(0, s - 1)

\* the Back button
GoBack ==
    /\ ~isSuccess
    /\ step # 0
    /\ step' = BackStep(step)
    /\ lastOp' = "back"
    /\ UNCHANGED <<adminVars, gateVars, isSuccess, showEligibilityModal, currentTruckIndex, draft,
                   eligibilityStatus, pending, inserts>>

StepAfterClickAny(current, i) == i

\* Stepper: onClick={() => done && onStepClick?.(i)}, onStepClick = setStep
StepAfterClick(current, i) == IF i < current THEN i ELSE current

StepperClick(i) ==
    /\ ~isSuccess
    /\ step' = StepAfterClick(step, i)
    /\ lastOp' = IF i < step THEN "jump" ELSE "noJump"
    /\ UNCHANGED <<adminVars, gateVars, isSuccess, showEligibilityModal, currentTruckIndex, draft,
                   eligibilityStatus, pending, inserts>>

\* handleSubmit(onSubmit): whether onSubmit is called with draft d
SubmitAccepts(d) == SubmitValid(d)

\* the steps on which a submit event reaches the form: the last one, through
\* its Submit button, and step 0, whose section has no submit button and a
\* single text input (the capacity), so that Enter in it submits the form
\* once the input satisfies its own min and max
SubmitEvent(s, d) ==
    \/ s = LastStep
    \/ /\ s = 0
       /\ d.eligibilityCapacityTons >= MinCapacity
       /\ d.eligibilityCapacityTons <= MaxCapacity

\* <form onSubmit={handleSubmit(onSubmit)}>
Submit ==
    /\ ~isSuccess
    /\ SubmitEvent(step, draft)
    /\ IF SubmitAccepts(draft)
       THEN /\ isSuccess' = TRUE
            /\ lastOp' = "submitted"
       ELSE /\ lastOp' = "submitRejected"
            /\ UNCHANGED isSuccess
    /\ UNCHANGED <<adminVars, gateVars, step, showEligibilityModal, currentTruckIndex, draft,
                   eligibilityStatus, pending, inserts>>

-----------------------------------------------------------------------------
(* The vehicle section.  Every handler below is followed by the render it   *)
(* causes and by the resize effect that render schedules.                   *)

\* the values the user gives a field of the truck shown
TruckSamples(f) ==
    CASE f = "vehicleType" -> {SampleVehicleType}
      [] f = "loadCapacity" -> {0, 1}
      [] f = "registrationNumber" -> {SampleRegistration}
      [] OTHER -> {}

\* field.onChange of `trucks.${currentTruckIndex}.${f}`
TruckFieldChange(f, v) ==
    /\ ~isSuccess
    /\ step = 2
    /\ currentTruckIndex < Len(draft.trucks)
    /\ v # draft.trucks[currentTruckIndex + 1][f]
    /\ draft' = [draft EXCEPT !.trucks[currentTruckIndex + 1][f] = v]
    /\ lastOp' = "change"
    /\ UNCHANGED <<adminVars, gateVars, step, isSuccess, showEligibilityModal, currentTruckIndex,
                   eligibilityStatus, pending, inserts>>

\* MultiFileUpload: field.onChange([...currentFiles, ...files])
AddDocument ==
    /\ ~isSuccess
    /\ step = 2
    /\ Len(draft.vehicleDocuments) < MaxDocs
    /\ draft' = [draft EXCEPT
                   !.vehicleDocuments = Append(draft.vehicleDocuments, SampleFile)]
    /\ lastOp' = "change"
    /\ UNCHANGED <<adminVars, gateVars, step, isSuccess, showEligibilityModal, currentTruckIndex,
                   eligibilityStatus, pending, inserts>>

\* the plus and minus buttons: the value handed to field.onChange
CounterAfter(n, delta) ==
    IF delta > 0 THEN Min(TruckLimit, n + 1) ELSE Max(1, n - 1)

\* the plus button (delta = 1) or the minus button (delta = -1)
CounterChange(delta) ==
    /\ ~isSuccess
    /\ step = 2
    /\ IF delta > 0
       THEN draft.numberOfTrucks < TruckLimit /\ draft.numberOfTrucks < MaxTrucks
       ELSE draft.numberOfTrucks > 1
    /\ LET d == [draft EXCEPT
                   !.numberOfTrucks = CounterAfter(draft.numberOfTrucks, delta)]
       IN  /\ draft' = EffectDraft(d)
           /\ currentTruckIndex' = EffectIndex(d, currentTruckIndex)
    /\ lastOp' = "counter"
    /\ UNCHANGED <<adminVars, gateVars, step, isSuccess, showEligibilityModal, eligibilityStatus,
                   pending, inserts>>

\* the tab button of truck i: setCurrentTruckIndex(i)
SelectTruck(i) ==
    /\ ~isSuccess
    /\ step = 2
    /\ draft.numberOfTrucks > 1
    /\ i \in 0..(draft.numberOfTrucks - 1)
    /\ i # currentTruckIndex
    /\ currentTruckIndex' = EffectIndex(draft, i)
    /\ draft' = EffectDraft(draft)
    /\ lastOp' = "select"
    /\ UNCHANGED <<adminVars, gateVars, step, isSuccess, showEligibilityModal, eligibilityStatus,
                   pending, inserts>>

\* the X of tab i
RemoveTab(i) ==
    /\ ~isSuccess
    /\ step = 2
    /\ draft.numberOfTrucks > 1
    /\ i \in 0..(draft.numberOfTrucks - 1)
    /\ LET d == [draft EXCEPT !.trucks = Splice(draft.trucks, i),
                              !.numberOfTrucks = draft.numberOfTrucks - 1]
           cti == IF currentTruckIndex >= i
                  THEN Max(0, currentTruckIndex - 1)
                  ELSE currentTruckIndex
       IN  /\ draft' = EffectDraft(d)
           /\ currentTruckIndex' = EffectIndex(d, cti)
    /\ lastOp' = "removeTab"
    /\ UNCHANGED <<adminVars, gateVars, step, isSuccess, showEligibilityModal, eligibilityStatus,
                   pending, inserts>>

\* the Remove button of the truck shown
RemoveCurrent ==
    /\ ~isSuccess
    /\ step = 2
    /\ draft.numberOfTrucks > 1
    /\ LET currentTrucks == Splice(draft.trucks, currentTruckIndex)
           d == [draft EXCEPT !.trucks = currentTrucks,
                              !.numberOfTrucks = draft.numberOfTrucks - 1]
           cti == IF currentTruckIndex >= Len(currentTrucks)
                  THEN Max(0, Len(currentTrucks) - 1)
                  ELSE currentTruckIndex
       IN  /\ draft' = EffectDraft(d)
           /\ currentTruckIndex' = EffectIndex(d, cti)
    /\ lastOp' = "removeCurrent"
    /\ UNCHANGED <<adminVars, gateVars, step, isSuccess, showEligibilityModal, eligibilityStatus,
                   pending, inserts>>

-----------------------------------------------------------------------------
(* Spec: the wizard from its first render, one truck, one goNext in flight. *)

Next ==
    \/ \E f \in DOMAIN defaultValues : \E v \in Samples(f) : FieldChange(f, v)
    \/ \E f \in {"vehicleType", "registrationNumber"} :
          \E v \in TruckSamples(f) : TruckFieldChange(f, v)
    \/ AddDocument
    \/ GoNext
    \/ GoNextResolve
    \/ GoBack
    \/ \E i \in 0..LastStep : StepperClick(i)
    \/ Submit

Spec == Init /\ [][Next]_vars

-----------------------------------------------------------------------------
(* SpecElig: eligibilityStatus as a function of its three inputs. *)

EligCapacities == {-1, 0, 1, 2, 8, 14, 15, 16}

Unevaluated == [ok |-> FALSE, reason |-> "unevaluated"]

InitElig ==
    /\ step = 0
    /\ isSuccess = FALSE
    /\ showEligibilityModal = FALSE
    /\ currentTruckIndex = 0
    /\ \E o \in {Undefined, "yes", "no"}, c \in EligCapacities,
          h \in {Undefined, "yes", "no"} :
          draft = [defaultValues EXCEPT !.ownsVehicle = o,
                                        !.eligibilityCapacityTons = c,
                                        !.hasRequiredDocs = h]
    /\ eligibilityStatus = Unevaluated
    /\ pending = <<>>
    /\ inserts = 0
    /\ lastOp = "mount"
    /\ AdminUnmounted
    /\ GateUnmounted

\* the render that computes the memo from the watched fields
Evaluate ==
    /\ lastOp = "mount"
    /\ eligibilityStatus' = Render(draft)
    /\ lastOp' = "render"
    /\ UNCHANGED <<adminVars, gateVars, step, isSuccess, showEligibilityModal, currentTruckIndex,
                   draft, pending, inserts>>

NextElig == Evaluate

SpecElig == InitElig /\ [][NextElig]_vars

-----------------------------------------------------------------------------
(* SpecTrucks: the vehicle section, entered with the earlier sections       *)
(* filled in.                                                               *)

VehicleStepDraft ==
    [defaultValues EXCEPT !.ownsVehicle = "yes",
                          !.eligibilityCapacityTons = 8,
                          !.hasRequiredDocs = "yes",
                          !.fullName = SampleName,
                          !.idNumber = SampleId,
                          !.mobile = SampleMobile,
                          !.email = SampleEmail,
                          !.address = SampleAddress,
                          !.province = SampleProvince]

InitTrucks ==
    /\ step = 2
    /\ isSuccess = FALSE
    /\ showEligibilityModal = FALSE
    /\ currentTruckIndex = 0
    /\ draft = VehicleStepDraft
    /\ eligibilityStatus = Render(VehicleStepDraft)
    /\ pending = <<>>
    /\ inserts = 0
    /\ lastOp = "advanced"
    /\ AdminUnmounted
    /\ GateUnmounted

\* the X of uploaded file i: newFiles.splice(index, 1)
RemoveDocument(i) ==
    /\ ~isSuccess
    /\ step = 2
    /\ i \in 0..(Len(draft.vehicleDocuments) - 1)
    /\ draft' = [draft EXCEPT
                   !.vehicleDocuments =
                       SubSeq(draft.vehicleDocuments, 1, i)
                       \o SubSeq(draft.vehicleDocuments, i + 2,
                                 Len(draft.vehicleDocuments))]
    /\ lastOp' = "change"
    /\ UNCHANGED <<adminVars, gateVars, step, isSuccess, showEligibilityModal, currentTruckIndex,
                   eligibilityStatus, pending, inserts>>

NextTrucks ==
    \/ \E f \in {"vehicleType", "loadCapacity", "registrationNumber"} :
          \E v \in TruckSamples(f) : TruckFieldChange(f, v)
    \/ AddDocument
    \/ \E i \in 0..(MaxDocs - 1) : RemoveDocument(i)
    \/ \E delta \in {-1, 1} : CounterChange(delta)
    \/ \E i \in 0..(MaxTrucks - 1) : SelectTruck(i)
    \/ \E i \in 0..(MaxTrucks - 1) : RemoveTab(i)
    \/ RemoveCurrent
    \/ GoNext
    \/ GoNextResolve

SpecTrucks == InitTrucks /\ [][NextTrucks]_vars

\* the state SpecTrucks starts in is one the wizard reaches from its first render
VehicleStepReached ==
    /\ step = 2 /\ draft = VehicleStepDraft /\ currentTruckIndex = 0
    /\ pending = <<>> /\ lastOp = "advanced" /\ ~isSuccess

-----------------------------------------------------------------------------
(* The admin dashboard (component AdminDashboard): the query built by       *)
(* fetchApplications, the sort toggle, the selection map and the bulk       *)
(* status update.  The wizard is not mounted while the dashboard is.        *)

\* Rows the table holds in the model.
MaxRecords == 3
\* Update calls the model lets the operator issue.
MaxUpdateCalls == 2
\* Writes the model lets the backend's clock count.
MaxClock == 3

\* a NULL text column (text values are sequences of one-character strings)
Null == <<"NULL">>

statusOptions == {"pending", "in_review", "approved", "rejected"}
SortFields == {"submitted_at", "applicant_name", "email"}

\* the rows the table is filled with
SampleApplication(i) ==
    CASE i = 1 -> [id |-> 1,
                   applicant_name |-> <<"A", "l", "i", "c", "e">>,
                   email |-> <<"a", "@", "x", ".", "c", "o", "m">>,
                   status |-> "pending", submitted_at |-> 1]
      [] i = 2 -> [id |-> 2,
                   applicant_name |-> <<"B", "o", "b">>,
                   email |-> <<"b", "@", "y", ".", "c", "o", "m">>,
                   status |-> "approved", submitted_at |-> 2]
      [] i = 3 -> [id |-> 3,
                   applicant_name |-> Null,
                   email |-> <<"c", "_", "d", "@", "y", ".", "c", "o", "m">>,
                   status |-> "pending", submitted_at |-> 3]
      [] OTHER -> [id |-> i,
                   applicant_name |-> <<"B", "o", "b">>,
                   email |-> Null,
                   status |-> "rejected", submitted_at |-> i]

\* the texts the operator types into the search box
SearchSamples ==
    {<<>>,
     <<"a", "l", "i", "c", "e">>,
     <<"x", ".", "c", "o", "m">>,
     <<"_">>}

\* the status the operator sets in the model (the Approve button)
StatusSamples == {"approved"}

UpperCase == <<"A", "B", "C", "D", "E", "F", "G", "H", "I", "J", "K", "L", "M",
               "N", "O", "P", "Q", "R", "S", "T", "U", "V", "W", "X", "Y", "Z">>
LowerCase == <<"a", "b", "c", "d", "e", "f", "g", "h", "i", "j", "k", "l", "m",
               "n", "o", "p", "q", "r", "s", "t", "u", "v", "w", "x", "y", "z">>

\* case folding of ILIKE
Lower(c) ==
    IF \E k \in 1..Len(UpperCase) : UpperCase[k] = c
    THEN LowerCase[CHOOSE k \in 1..Len(UpperCase) : UpperCase[k] = c]
    ELSE c

\* text ILIKE pattern: "%" stands for any run of characters, "_" for any one
\* character, every other character for itself in either case
RECURSIVE LikeMatch(_, _)
LikeMatch(pattern, text) ==
    IF pattern = <<>> THEN text = <<>>
    ELSE IF Head(pattern) = "%"
    THEN \/ LikeMatch(Tail(pattern), text)
         \/ text # <<>> /\ LikeMatch(pattern, Tail(text))
    ELSE /\ text # <<>>
         /\ Head(pattern) = "_" \/ Lower(Head(pattern)) = Lower(Head(text))
         /\ LikeMatch(Tail(pattern), Tail(text))

\* column.ilike.%search% : a NULL column matches nothing
ILike(column, text) ==
    column # Null /\ LikeMatch(<<"%">> \o text \o <<"%">>, column)

\* the filters fetchApplications adds to the query
Selects(a, searchText, statusFilter) ==
    /\ statusFilter # "all" => a.status = statusFilter
    /\ searchText # <<>> =>
          ILike(a.applicant_name, searchText) \/ ILike(a.email, searchText)

\* the collation order of the characters of the sample texts
Collation ==
    <<"_", ".", "@">> \o LowerCase

CharRank(c) == CHOOSE k \in 1..Len(Collation) : Collation[k] = Lower(c)

RECURSIVE TextLeq(_, _)
TextLeq(x, y) ==
    IF x = <<>> THEN TRUE
    ELSE IF y = <<>> THEN FALSE
    ELSE IF CharRank(Head(x)) # CharRank(Head(y))
    THEN CharRank(Head(x)) < CharRank(Head(y))
    ELSE TextLeq(Tail(x), Tail(y))

\* ORDER BY field: a comes no later than b in ascending order (NULLs sort
\* as larger than every value)
KeyLeq(a, b, field) ==
    IF field = "submitted_at" THEN a.submitted_at <= b.submitted_at
    ELSE IF b[field] = Null THEN TRUE
    ELSE IF a[field] = Null THEN FALSE
    ELSE TextLeq(a[field], b[field])

\* query.order(sort.field, { ascending: sort.dir === "asc" })
IsOrdered(rows, s) ==
    \A k \in 1..(Len(rows) - 1) :
        IF s.dir = "asc"
        THEN KeyLeq(rows[k], rows[k + 1], s.field)
        ELSE KeyLeq(rows[k + 1], rows[k], s.field)

\* the sequences that list every element of S once
Orderings(S) ==
    {rows \in [1..Cardinality(S) -> S] :
        \A j, k \in 1..Cardinality(S) : rows[j] = rows[k] => j = k}

\* fetchApplications: the results the backend may return for the table tbl
\* (rows of equal sort key come in any order)
fetchApplications(tbl, searchText, statusFilter, s) ==
    {rows \in Orderings({tbl[i] : i \in {j \in DOMAIN tbl :
                                     Selects(tbl[j], searchText, statusFilter)}}) :
        IsOrdered(rows, s)}

toggleSortAlwaysFlips(s, field) ==
    [field |-> field, dir |-> IF s.dir = "desc" THEN "asc" ELSE "desc"]

\* toggleSort: the state setSort's updater returns
toggleSort(s, field) ==
    [field |-> field,
     dir |-> IF s.field = field /\ s.dir = "desc" THEN "asc" ELSE "desc"]

\* the ids of the rows displayed
DisplayedIds == {data[k].id : k \in 1..Len(data)}

\* !!selected[id]
Checked(sel, id) == id \in DOMAIN sel /\ sel[id]

\* allSelected
allSelected ==
    DisplayedIds # {} /\ \A id \in DisplayedIds : Checked(selected, id)

selectedIdsAllKeys(sel) == DOMAIN sel

\* selectedIds: Object.keys(selected).filter((k) => selected[k])
selectedIds(sel) == {id \in DOMAIN sel : sel[id]}

\* {}
EmptySelection == [id \in {} |-> FALSE]

SelectionAfterUpdateAlwaysCleared(sel, error) == EmptySelection

\* the selection map bulkUpdateStatus leaves once the update call resolved
SelectionAfterUpdate(sel, error) == IF error THEN sel ELSE EmptySelection

\* the dashboard after its first render: the query of the initial key is
\* in flight
AdminFirstRender ==
    /\ search = <<>>
    /\ status = "all"
    /\ sort = [field |-> "submitted_at", dir |-> "desc"]
    /\ selected = EmptySelection
    /\ data = <<>>
    /\ isLoading = TRUE
    /\ isFetching = TRUE
    /\ updates = <<>>
    /\ updateCalls = 0
    /\ toast = "none"
    /\ events = 0
    /\ csv = <<>>
    /\ now = 0

\* the first render over a table holding the first k sample rows
AdminMounted(k) ==
    /\ table = [i \in 1..k |-> SampleApplication(i)]
    /\ AdminFirstRender

\* the wizard is not mounted while the dashboard is
WizardUnmounted ==
    /\ step = 0
    /\ isSuccess = FALSE
    /\ showEligibilityModal = FALSE
    /\ currentTruckIndex = 0
    /\ draft = defaultValues
    /\ eligibilityStatus = Render(defaultValues)
    /\ pending = <<>>
    /\ inserts = 0

\* a new query key: useQuery has no data for it and fetches
KeyChanged ==
    /\ data' = <<>>
    /\ isLoading' = TRUE
    /\ isFetching' = TRUE

\* the search box: setSearch(e.target.value)
SetSearch(v) ==
    /\ v # search
    /\ search' = v
    /\ KeyChanged
    /\ lastOp' = "search"
    /\ UNCHANGED <<wizardVars, gateVars, csv, now, table, status, sort, selected, updates,
                   updateCalls, toast, events>>

\* the status select: setStatus(v)
SetStatus(v) ==
    /\ v # status
    /\ status' = v
    /\ KeyChanged
    /\ lastOp' = "filter"
    /\ UNCHANGED <<wizardVars, gateVars, csv, now, table, search, sort, selected, updates,
                   updateCalls, toast, events>>

\* a click on the Name, Email or Submitted header
ToggleSort(field) ==
    /\ sort' = toggleSort(sort, field)
    /\ KeyChanged
    /\ lastOp' = "sort"
    /\ UNCHANGED <<wizardVars, gateVars, csv, now, table, search, status, selected, updates,
                   updateCalls, toast, events>>

\* the query of the current key resolves
FetchResolve ==
    /\ isFetching
    /\ data' \in fetchApplications(table, search, status, sort)
    /\ isLoading' = FALSE
    /\ isFetching' = FALSE
    /\ lastOp' = "fetched"
    /\ UNCHANGED <<wizardVars, gateVars, csv, now, table, search, status, sort, selected, updates,
                   updateCalls, toast, events>>

\* the Refresh button: refetch()
Refresh ==
    /\ isFetching' = TRUE
    /\ lastOp' = "refresh"
    /\ UNCHANGED <<wizardVars, gateVars, csv, now, table, search, status, sort, selected, data,
                   isLoading, updates, updateCalls, toast, events>>

\* the checkbox of a displayed row
ToggleRow(id) ==
    /\ id \in DisplayedIds
    /\ selected' = [k \in DOMAIN selected \cup {id} |->
                      IF k = id THEN ~Checked(selected, id) ELSE selected[k]]
    /\ lastOp' = "toggleRow"
    /\ UNCHANGED <<wizardVars, gateVars, csv, now, table, search, status, sort, data, isLoading,
                   isFetching, updates, updateCalls, toast, events>>

\* the header checkbox: toggleSelectAll(!allSelected)
ToggleSelectAll ==
    /\ selected' = [id \in DisplayedIds |-> ~allSelected]
    /\ lastOp' = "toggleAll"
    /\ UNCHANGED <<wizardVars, gateVars, csv, now, table, search, status, sort, data, isLoading,
                   isFetching, updates, updateCalls, toast, events>>

\* bulkUpdateStatus up to its await: the Approve / Reject / In Review buttons
\* (disabled while nothing is selected) and the Set buttons of a row's dialog
BulkUpdateStatus(newStatus) ==
    /\ selectedIds(selected) # {} \/ DisplayedIds # {}
    /\ IF selectedIds(selected) = {}
       THEN /\ lastOp' = "bulkNoop"
            /\ UNCHANGED <<updates, updateCalls>>
       ELSE /\ updateCalls < MaxUpdateCalls
            /\ updates' = Append(updates, [ids |-> selectedIds(selected),
                                           status |-> newStatus,
                                           outcome |-> "sent"])
            /\ updateCalls' = updateCalls + 1
            /\ lastOp' = "bulkCall"
    /\ UNCHANGED <<wizardVars, gateVars, csv, now, table, search, status, sort, selected, data,
                   isLoading, isFetching, toast, events>>

\* the backend runs the oldest update call: UPDATE ... WHERE id IN (ids),
\* one change event per row written; or the call fails and writes nothing
UpdateServer(ok) ==
    /\ updates # <<>>
    /\ Head(updates).outcome = "sent"
    /\ LET call == Head(updates)
           hit == call.ids \cap DOMAIN table
       IN  IF ok
           THEN /\ table' = [i \in DOMAIN table |->
                               IF i \in hit
                               THEN [table[i] EXCEPT !.status = call.status]
                               ELSE table[i]]
                /\ events' = events + Cardinality(hit)
                /\ updates' = [updates EXCEPT ![1].outcome = "ok"]
                /\ lastOp' = "updateApplied"
           ELSE /\ updates' = [updates EXCEPT ![1].outcome = "error"]
                /\ lastOp' = "updateRefused"
                /\ UNCHANGED <<table, events>>
    /\ UNCHANGED <<wizardVars, gateVars, csv, now, search, status, sort, selected, data,
                   isLoading, isFetching, updateCalls, toast>>

\* bulkUpdateStatus after its await
BulkUpdateResolve ==
    /\ updates # <<>>
    /\ Head(updates).outcome # "sent"
    /\ LET error == Head(updates).outcome = "error"
       IN  /\ selected' = SelectionAfterUpdate(selected, error)
           /\ toast' = IF error THEN "error" ELSE "success"
           /\ isFetching' = IF error THEN isFetching ELSE TRUE
           /\ lastOp' = IF error THEN "bulkFailed" ELSE "bulkOk"
    /\ updates' = Tail(updates)
    /\ UNCHANGED <<wizardVars, gateVars, csv, now, table, search, status, sort, data, isLoading,
                   updateCalls, events>>

InvalidateIgnored(fetching) == fetching

\* invalidateQueries(["applications"]): the query on screen is refetched,
\* whether or not a fetch of it was in flight
Invalidate(fetching) == TRUE

\* a postgres_changes event arrives: invalidateQueries(["applications"])
RealtimeEvent ==
    /\ events > 0
    /\ events' = events - 1
    /\ isFetching' = Invalidate(isFetching)
    /\ lastOp' = "invalidate"
    /\ UNCHANGED <<wizardVars, gateVars, csv, now, table, search, status, sort, selected, data,
                   isLoading, updates, updateCalls, toast>>

-----------------------------------------------------------------------------
(* SpecQuery: the dashboard's query controls over a table nobody writes.    *)

InitQuery ==
    /\ WizardUnmounted
    /\ GateUnmounted
    /\ lastOp = "mount"
    /\ \E k \in 0..MaxRecords : AdminMounted(k)

NextQuery ==
    \/ \E v \in SearchSamples : SetSearch(v)
    \/ \E v \in {"all"} \cup statusOptions : SetStatus(v)
    \/ \E field \in SortFields : ToggleSort(field)
    \/ FetchResolve
    \/ Refresh

SpecQuery == InitQuery /\ [][NextQuery]_vars

-----------------------------------------------------------------------------
(* SpecBulk: selection and bulk status updates, with the status filter.     *)

InitBulk ==
    /\ WizardUnmounted
    /\ GateUnmounted
    /\ lastOp = "mount"
    /\ AdminMounted(MaxRecords)

NextBulk ==
    \/ \E v \in {"all", "pending"} : SetStatus(v)
    \/ FetchResolve
    \/ \E id \in 1..MaxRecords : ToggleRow(id)
    \/ ToggleSelectAll
    \/ \E newStatus \in StatusSamples : BulkUpdateStatus(newStatus)
    \/ \E ok \in BOOLEAN : UpdateServer(ok)
    \/ BulkUpdateResolve
    \/ RealtimeEvent

SpecBulk == InitBulk /\ [][NextBulk]_vars

-----------------------------------------------------------------------------
(* Claims. *)

\* C1: once the memo has been computed, eligibilityStatus.ok is true exactly
\* when ownsVehicle is "yes", the capacity lies in [1, 15] and
\* hasRequiredDocs is "yes".
C1_OkIffAllThreeRules ==
    lastOp = "render" =>
        (eligibilityStatus.ok <=>
            /\ draft.ownsVehicle = "yes"
            /\ 1 <= draft.eligibilityCapacityTons
            /\ draft.eligibilityCapacityTons <= 15
            /\ draft.hasRequiredDocs = "yes")

C1_Witness ==
    /\ lastOp = "render"
    /\ eligibilityStatus.ok
    /\ draft.eligibilityCapacityTons = 15

\* C2: when eligibilityStatus.ok is false the reason is the single reason of
\* the first failing rule in the order ownership, capacity, documents.
C2_FirstFailingReason ==
    (lastOp = "render" /\ ~eligibilityStatus.ok) =>
        eligibilityStatus.reason =
            IF draft.ownsVehicle # "yes"
            THEN "Reject: Driver only not allowed"
            ELSE IF draft.eligibilityCapacityTons < 1
                    \/ draft.eligibilityCapacityTons > 15
            THEN "Reject: Invalid truck size"
            ELSE "Reject: Missing roadworthy or insurance"

C2_Witness ==
    /\ lastOp = "render"
    /\ draft.ownsVehicle = "no"
    /\ draft.eligibilityCapacityTons = 16
    /\ draft.hasRequiredDocs = "no"
    /\ eligibilityStatus.reason = "Reject: Driver only not allowed"

\* C3: the step index never leaves the eligibility step while
\* eligibilityStatus.ok is false, also when the inputs change between the
\* call of goNext and the moment its validation resolves.
C3_NoAdvanceWhileIneligible ==
    [][(step = 0 /\ step' # 0) => eligibilityStatus.ok]_vars

\* C4: goNext on step k validates the fields of step k and no others, and a
\* goNext that is rejected leaves the step index, the success flag and the
\* draft as they were.
C4_RejectedAdvanceChangesNothing ==
    [][/\ lastOp' = "validating" =>
            (pending'[Len(pending')].valid <=>
                \A f \in fieldsByStep[step + 1] : f \notin SchemaErrors(draft))
       /\ lastOp' \in {"invalid", "lengthMismatch", "incomplete", "noDocuments"} =>
            (step' = step /\ isSuccess' = isSuccess /\ draft' = draft)
      ]_vars

C4_Witness ==
    /\ lastOp = "invalid"
    /\ step = 1
    /\ SchemaErrors(draft) \cap fieldsByStep[2] # {}

\* C5: goBack from step s sets the step to max(0, s - 1), is enabled whatever
\* the draft contains, and leaves the draft and the success flag unchanged.
C5_BackDecrementsOnly ==
    /\ []((~isSuccess /\ step > 0) => ENABLED GoBack)
    /\ [][lastOp' = "back" =>
            /\ step' = (IF step - 1 > 0 THEN step - 1 ELSE 0)
            /\ draft' = draft
            /\ isSuccess' = isSuccess]_vars

C5_Witness ==
    /\ lastOp = "back"
    /\ step = 2
    /\ SchemaErrors(draft) \cap fieldsByStep[4] # {}

\* C6: a stepper click on step i moves to i only when i is below the current
\* step; otherwise the step is unchanged, so no stepper click increases it.
C6_StepperOnlyGoesBack ==
    [][\A i \in 0..4 :
          StepperClick(i) =>
              /\ (i < step => step' = i)
              /\ (i >= step => step' = step)
              /\ step' <= step]_vars

C6_Witness == lastOp = "noJump" /\ step = 2

\* C7: isSuccess becomes true only by a submit on step 4 whose validation of
\* the whole schema succeeded, and whenever isSuccess is true the draft has
\* no schema error.
C7_SuccessOnlyByValidSubmit ==
    /\ [](isSuccess => (SchemaErrors(draft) = {} /\ step = 4))
    /\ [][(isSuccess' /\ ~isSuccess) =>
            (step = 4 /\ lastOp' = "submitted" /\ SchemaErrors(draft) = {})]_vars

\* C8: the success flag is never true in a state where no insert call was
\* issued; a successful submit issues exactly one.
C8_SuccessImpliesOneInsert == isSuccess => inserts = 1

\* C9: a submit whose validation of the whole schema fails is rejected: the
\* wizard stays on step 4, isSuccess stays false, the draft is unchanged and
\* no backend call is issued.
C9_RejectedSubmitChangesNothing ==
    [][/\ (Submit /\ SchemaErrors(draft) # {}) => lastOp' = "submitRejected"
       /\ lastOp' = "submitRejected" =>
            /\ step = 4 /\ step' = 4
            /\ ~isSuccess'
            /\ draft' = draft
            /\ inserts' = inserts]_vars

\* C10: when the counter goes from m to n the trucks array becomes n long;
\* its first min(m, n) entries are kept and entries m+1..n are blank
\* (empty type, capacity 1, empty registration).
C10_ResizeKeepsPrefix ==
    [][lastOp' = "counter" =>
        LET m == Len(draft.trucks)
            n == draft'.numberOfTrucks
        IN  /\ n # draft.numberOfTrucks
            /\ Len(draft'.trucks) = n
            /\ \A i \in 1..n :
                 draft'.trucks[i] =
                    IF i <= m THEN draft.trucks[i]
                    ELSE [vehicleType |-> <<>>, loadCapacity |-> 1,
                          registrationNumber |-> <<>>]]_vars

C10_Witness ==
    /\ lastOp = "counter"
    /\ draft.numberOfTrucks = 2
    /\ Len(draft.trucks) = 2
    /\ draft.trucks[1].vehicleType # <<>>
    /\ draft.trucks[2].registrationNumber # <<>>

\* C11: after any sequence of plus clicks, minus clicks and single-entry
\* removals (the X of a tab or the Remove button), once the resize effect has
\* run, the trucks array is as long as the numberOfTrucks counter says.
C11_LengthMatchesCounter == Len(draft.trucks) = draft.numberOfTrucks

C11_Witness ==
    /\ lastOp \in {"removeTab", "removeCurrent"}
    /\ draft.numberOfTrucks = 2
    /\ Len(draft.trucks) = 2
    /\ draft.trucks[2].registrationNumber # <<>>

\* C12: after any resize of the trucks array (a counter change or the removal
\* of one entry) the index of the truck shown is at least 0 and less than the
\* number of trucks, so it designates an existing entry.
C12_IndexInRange ==
    /\ currentTruckIndex >= 0
    /\ currentTruckIndex < draft.numberOfTrucks
    /\ currentTruckIndex + 1 \in DOMAIN draft.trucks

C12_Witness ==
    /\ lastOp = "counter"
    /\ draft.numberOfTrucks = 2
    /\ currentTruckIndex = 0
    /\ draft.trucks[1] = BlankTruck
    /\ draft.trucks[2].vehicleType # <<>>

\* C13: removing the entry at position i while more than one entry is
\* present removes that entry and no other: the entries before i stay where
\* they are, the entries after i move up by one with their values intact, the
\* counter drops by exactly one, and the resize effect that follows neither
\* appends a blank entry nor truncates a surviving one.
C13_RemovalRemovesThatEntry ==
    [][\A i \in 0..(MaxTrucks - 1) :
          (RemoveTab(i) \/ (RemoveCurrent /\ i = currentTruckIndex)) =>
              /\ Len(draft.trucks) > 1
              /\ draft'.numberOfTrucks = draft.numberOfTrucks - 1
              /\ Len(draft'.trucks) = Len(draft.trucks) - 1
              /\ \A j \in 1..Len(draft'.trucks) :
                    draft'.trucks[j] =
                        IF j <= i THEN draft.trucks[j] ELSE draft.trucks[j + 1]]_vars

C13_Witness ==
    /\ lastOp \in {"removeTab", "removeCurrent"}
    /\ draft.numberOfTrucks = 2
    /\ draft.trucks[1].vehicleType = <<>>
    /\ draft.trucks[1].loadCapacity = 0
    /\ draft.trucks[2].vehicleType # <<>>
    /\ draft.trucks[2].registrationNumber # <<>>

\* C14: a truck entry is reported complete exactly when its type and its
\* registration are both non-empty, whatever its capacity is: an entry with a
\* type, a registration and capacity 0 is complete.
C14_CompleteIgnoresCapacity ==
    \A i \in 1..Len(draft.trucks) :
        isTruckComplete(draft.trucks[i]) <=>
            (Len(draft.trucks[i].vehicleType) > 0
             /\ Len(draft.trucks[i].registrationNumber) > 0)

C14_Witness ==
    \E i \in 1..Len(draft.trucks) :
        /\ draft.trucks[i].vehicleType # <<>>
        /\ draft.trucks[i].registrationNumber # <<>>
        /\ draft.trucks[i].loadCapacity = 0
        /\ isTruckComplete(draft.trucks[i])

C16_QueryReturnsSubstringMatches ==
    [][lastOp' = "fetched" =>
        LET Occurs(text, column) ==
                /\ column # Null
                /\ \E o \in 0..(Len(column) - Len(text)) :
                      \A k \in 1..Len(text) :
                          Lower(column[o + k]) = Lower(text[k])
            wanted == {i \in DOMAIN table :
                          /\ status = "all" \/ table[i].status = status
                          /\ \/ search = <<>>
                             \/ Occurs(search, table[i].applicant_name)
                             \/ Occurs(search, table[i].email)}
        IN  /\ Len(data') = Cardinality(wanted)
            /\ {data'[k] : k \in 1..Len(data')} = {table[i] : i \in wanted}
            /\ (search = <<>> /\ status = "all"
                /\ sort = [field |-> "submitted_at", dir |-> "desc"]) =>
                  /\ Len(data') = Len(table)
                  /\ \A k \in 1..(Len(data') - 1) :
                        data'[k].submitted_at >= data'[k + 1].submitted_at]_vars

\* C17: toggling the sort on the column already sorted by flips the
\* direction, so doing it twice gives back the original (field, direction);
\* toggling on any other column gives that column, descending, whatever the
\* direction was.
C17_SortToggle ==
    /\ [](/\ toggleSort(toggleSort(sort, sort.field), sort.field) = sort
          /\ \A field \in SortFields \ {sort.field} :
                toggleSort(sort, field) = [field |-> field, dir |-> "desc"])
    /\ [][lastOp' = "sort" =>
            IF sort'.field = sort.field
            THEN sort'.dir # sort.dir
            ELSE sort'.dir = "desc"]_vars

C17_Witness ==
    /\ lastOp = "sort"
    /\ sort = [field |-> "email", dir |-> "asc"]

\* C18: a bulk status update called with a non-empty set S of selected ids
\* issues exactly one update call, for exactly the ids of S, and no refresh
\* yet; when the call has succeeded the selection is emptied and the refresh
\* is issued; called with nothing selected it issues no call.
C18_BulkUpdateOneCall ==
    [][/\ lastOp' = "bulkCall" =>
            /\ {id \in DOMAIN selected : selected[id]} # {}
            /\ updateCalls' = updateCalls + 1
            /\ Len(updates') = Len(updates) + 1
            /\ \A k \in 1..Len(updates) : updates'[k] = updates[k]
            /\ updates'[Len(updates')].ids =
                  {id \in DOMAIN selected : selected[id]}
            /\ isFetching' = isFetching /\ data' = data
            /\ selected' = selected
       /\ lastOp' = "bulkOk" =>
            /\ Head(updates).outcome = "ok"
            /\ \A id \in Head(updates).ids \cap DOMAIN table :
                  \E k \in 1..Len(updates) :
                      table[id].status = updates[k].status
            /\ \A id \in DOMAIN selected' : ~selected'[id]
            /\ isFetching'
            /\ updateCalls' = updateCalls
       /\ lastOp' = "bulkNoop" =>
            /\ {id \in DOMAIN selected : selected[id]} = {}
            /\ updateCalls' = updateCalls
            /\ updates' = updates]_vars

C18_Witness ==
    /\ lastOp = "bulkOk"
    /\ updateCalls = 1
    /\ updates = <<>>
    /\ selected = EmptySelection
    /\ isFetching
    /\ \A i \in DOMAIN table : table[i].status = "approved"

\* C19: when the update call of a bulk status update fails the selection map
\* stays exactly as it was, no refresh is issued, the error is reported, and
\* no update call is issued again until the operator triggers the action.
C19_FailedUpdateKeepsSelection ==
    [][/\ lastOp' = "bulkFailed" =>
            /\ Head(updates).outcome = "error"
            /\ selected' = selected
            /\ isFetching' = isFetching /\ data' = data
            /\ toast' = "error"
            /\ updateCalls' = updateCalls
            /\ updates' = Tail(updates)
       /\ updateCalls' # updateCalls => lastOp' = "bulkCall"]_vars

C19_Witness ==
    /\ lastOp = "bulkFailed"
    /\ toast = "error"
    /\ updates = <<>>
    /\ ~isFetching
    /\ \E id \in DOMAIN selected : selected[id]
    /\ \E id \in DOMAIN selected : ~selected[id]

\* C20: when the operator has changed the search text or the status filter
\* and the new result set is displayed, every selected id is one of the
\* displayed rows.
C20_NoSelectionOutsideDisplayedRows ==
    [][(lastOp \in {"search", "filter"} /\ lastOp' = "fetched") =>
        \A id \in DOMAIN selected' :
            selected'[id] => \E k \in 1..Len(data') : data'[k].id = id]_vars


-----------------------------------------------------------------------------
(* The CSV export of the dashboard (exportCSV).  Texts are sequences of     *)
(* one-character strings, so that the export is computed character by       *)
(* character as the code builds it.                                         *)

DecimalDigits == <<"0", "1", "2", "3", "4", "5", "6", "7", "8", "9">>

\* String(n) of a non-negative integer
RECURSIVE IntToText(_)
IntToText(n) ==
    IF n < 10 THEN <<DecimalDigits[n + 1]>>
    ELSE IntToText(n \div 10) \o <<DecimalDigits[(n % 10) + 1]>>

\* String(a.status)
StatusText(v) ==
    CASE v = "pending" -> <<"p", "e", "n", "d", "i", "n", "g">>
      [] v = "in_review" -> <<"i", "n", "_", "r", "e", "v", "i", "e", "w">>
      [] v = "approved" -> <<"a", "p", "p", "r", "o", "v", "e", "d">>
      [] v = "rejected" -> <<"r", "e", "j", "e", "c", "t", "e", "d">>

\* a.column ?? ""
OrEmpty(v) == IF v = Null THEN <<>> ELSE v

\* text.replaceAll('"', '""')
RECURSIVE EscapeQuotes(_)
EscapeQuotes(t) ==
    IF t = <<>> THEN <<>>
    ELSE IF Head(t) = "\"" THEN <<"\"", "\"">> \o EscapeQuotes(Tail(t))
    ELSE <<Head(t)>> \o EscapeQuotes(Tail(t))

\* parts.join(sep)
RECURSIVE Join(_, _)
Join(parts, sep) ==
    IF parts = <<>> THEN <<>>
    ELSE IF Len(parts) = 1 THEN parts[1]
    ELSE parts[1] \o sep \o Join(Tail(parts), sep)

\* Object.keys(rows[0] || { id: "", applicant_name: "", ... }): the same six
\* keys whether or not there is a first row
CsvHeader ==
    << <<"i", "d">>,
       <<"a", "p", "p", "l", "i", "c", "a", "n", "t", "_", "n", "a", "m", "e">>,
       <<"e", "m", "a", "i", "l">>,
       <<"p", "h", "o", "n", "e">>,
       <<"s", "t", "a", "t", "u", "s">>,
       <<"s", "u", "b", "m", "i", "t", "t", "e", "d", "_", "a", "t">> >>

\* the object exportCSV maps a fetched record to, each value as String(...)
\* gives it, in the order of the header
CsvCells(a) ==
    <<IntToText(a.id), OrEmpty(a.applicant_name), OrEmpty(a.email),
      OrEmpty(a.phone), StatusText(a.status), IntToText(a.submitted_at)>>

\* header.map((h) => String(r[h]).replaceAll('"', '""')).join(",")
CsvLine(a) ==
    Join([k \in 1..Len(CsvHeader) |-> EscapeQuotes(CsvCells(a)[k])], <<",">>)

\* exportCSV: the text handed to the Blob
exportCSV(rows) ==
    Join(<<Join(CsvHeader, <<",">>)>> \o [k \in 1..Len(rows) |-> CsvLine(rows[k])],
         <<"\n">>)

\* the rows the exported table is filled with: a name with a quotation
\* mark, a NULL phone, a name with a line break
ExportSample(i) ==
    CASE i = 1 -> [id |-> 1,
                   applicant_name |-> <<"A", "\"", "b">>,
                   email |-> <<"a", "@", "x">>,
                   phone |-> <<"0", "7">>,
                   status |-> "pending", submitted_at |-> 1]
      [] i = 2 -> [id |-> 2,
                   applicant_name |-> <<"B", "o">>,
                   email |-> <<"b", "@", "y">>,
                   phone |-> Null,
                   status |-> "approved", submitted_at |-> 2]
      [] i = 3 -> [id |-> 3,
                   applicant_name |-> <<"C", "\n", "D">>,
                   email |-> Null,
                   phone |-> <<"0", "8">>,
                   status |-> "pending", submitted_at |-> 3]
      [] OTHER -> [id |-> i,
                   applicant_name |-> Null,
                   email |-> <<"d", ",", "e", "@", "y">>,
                   phone |-> Null,
                   status |-> "rejected", submitted_at |-> i]

\* the Export CSV button
ExportCSV ==
    /\ csv' = exportCSV(data)
    /\ lastOp' = "export"
    /\ UNCHANGED <<wizardVars, gateVars, now, table, search, status, sort, selected, data,
                   isLoading, isFetching, updates, updateCalls, toast, events>>

(* SpecExport: the dashboard's query and its export over a table of free    *)
(* text that nobody writes.                                                 *)

InitExport ==
    /\ WizardUnmounted
    /\ GateUnmounted
    /\ lastOp = "mount"
    /\ \E k \in 0..MaxRecords : table = [i \in 1..k |-> ExportSample(i)]
    /\ AdminFirstRender

NextExport ==
    \/ \E v \in {"all", "pending"} : SetStatus(v)
    \/ ToggleSort("submitted_at")
    \/ FetchResolve
    \/ Refresh
    \/ ExportCSV

SpecExport == InitExport /\ [][NextExport]_vars

\* text.split("\n")
RECURSIVE Lines(_)
Lines(t) ==
    IF \A k \in 1..Len(t) : t[k] # "\n" THEN <<t>>
    ELSE LET k == CHOOSE j \in 1..Len(t) :
                      t[j] = "\n" /\ \A h \in 1..(j - 1) : t[h] # "\n"
         IN  <<SubSeq(t, 1, k - 1)>> \o Lines(SubSeq(t, k + 1, Len(t)))

\* t starts with the text prefix
StartsWith(t, prefix) ==
    Len(t) >= Len(prefix) /\ SubSeq(t, 1, Len(prefix)) = prefix


\* C21: an export writes one header line and then one line per fetched
\* record, in fetched order (line k + 1 starts with the id of record k), and
\* exactly the header line when nothing is fetched.
C21_ExportOneLinePerRecord ==
    [][lastOp' = "export" =>
        /\ Len(Lines(csv')) = Len(data) + 1
        /\ Lines(csv')[1] = Join(CsvHeader, <<",">>)
        /\ \A k \in 1..Len(data) :
              StartsWith(Lines(csv')[k + 1], IntToText(data[k].id) \o <<",">>)
        /\ data = <<>> => csv' = Join(CsvHeader, <<",">>)]_vars


-----------------------------------------------------------------------------
(* SpecRealtime: other sessions write the table while the dashboard is      *)
(* mounted; the backend publishes one change event per row written.         *)

\* the ids the model's table may hold
RecordIds == 1..MaxRecords

\* another session inserts a row
RemoteInsert(id) ==
    /\ now < MaxClock
    /\ id \notin DOMAIN table
    /\ table' = [i \in DOMAIN table \cup {id} |->
                    IF i = id THEN SampleApplication(id) ELSE table[i]]
    /\ events' = events + 1
    /\ now' = now + 1
    /\ lastOp' = "remoteInsert"
    /\ UNCHANGED <<wizardVars, gateVars, csv, search, status, sort, selected, data,
                   isLoading, isFetching, updates, updateCalls, toast>>

\* another session updates a row
RemoteUpdate(id, newStatus) ==
    /\ now < MaxClock
    /\ id \in DOMAIN table
    /\ table' = [table EXCEPT ![id].status = newStatus]
    /\ events' = events + 1
    /\ now' = now + 1
    /\ lastOp' = "remoteUpdate"
    /\ UNCHANGED <<wizardVars, gateVars, csv, search, status, sort, selected, data,
                   isLoading, isFetching, updates, updateCalls, toast>>

\* another session deletes a row
RemoteDelete(id) ==
    /\ now < MaxClock
    /\ id \in DOMAIN table
    /\ table' = [i \in DOMAIN table \ {id} |-> table[i]]
    /\ events' = events + 1
    /\ now' = now + 1
    /\ lastOp' = "remoteDelete"
    /\ UNCHANGED <<wizardVars, gateVars, csv, search, status, sort, selected, data,
                   isLoading, isFetching, updates, updateCalls, toast>>

InitRealtime ==
    /\ WizardUnmounted
    /\ GateUnmounted
    /\ lastOp = "mount"
    /\ \E k \in 0..MaxRecords : AdminMounted(k)

NextRealtime ==
    \/ \E id \in RecordIds : RemoteInsert(id)
    \/ \E id \in RecordIds : \E newStatus \in StatusSamples : RemoteUpdate(id, newStatus)
    \/ \E id \in RecordIds : RemoteDelete(id)
    \/ RealtimeEvent
    \/ FetchResolve
    \/ \E v \in {"all", "pending"} : SetStatus(v)

\* the channel delivers every event it holds and every request is answered
FairRealtime == WF_vars(RealtimeEvent) /\ WF_vars(FetchResolve)

SpecRealtime == InitRealtime /\ [][NextRealtime]_vars /\ FairRealtime

\* C22: every change event is eventually handled by an invalidation, every
\* invalidation is eventually followed by a resolved fetch of the current
\* query, and the data on screen only ever becomes undefined (new key) or a
\* full result of the current query.
C22_ChangeEventsRefetch ==
    /\ (events > 0) ~> (lastOp = "invalidate")
    /\ (lastOp = "invalidate") ~>
          (lastOp = "fetched" /\ data \in fetchApplications(table, search, status, sort))
    /\ [][data' # data =>
            \/ data' = <<>> /\ isLoading'
            \/ data' \in fetchApplications(table', search', status', sort')]_vars

C22_Witness ==
    /\ now > 0
    /\ events = 0
    /\ lastOp = "fetched"
    /\ data # <<>>
    /\ \E k \in 1..Len(data) : data[k] # SampleApplication(data[k].id)


-----------------------------------------------------------------------------
(* The admin gate (ProtectedAdminRoute).  The gate's callbacks set its      *)
(* state; React renders in a later task, so a callback of another pending   *)
(* request may run between a state change and the render that shows it.     *)

\* Requests (getSession, role lookups) the model lets the gate have pending.
MaxLookups == 2

\* the accounts of the model, and those holding the admin role
Users == {"root", "guest"}
Admins == {"root"}

\* has_role(_user_id, 'admin')
has_role(u) == u \in Admins

\* the three returns of the component's body
GateRender(loadingNow, isAdminNow) ==
    IF loadingNow THEN "nothing"
    ELSE IF ~isAdminNow THEN "redirect"
    ELSE "children"

\* the route /admin is entered: a new instance of the gate, whose effect
\* subscribes to the auth client and asks it for the session
GateMount ==
    /\ ~mounted
    /\ mounted' = TRUE
    /\ loading' = TRUE
    /\ isAdmin' = FALSE
    /\ lookups' = <<"getSession">>
    /\ output' = "nothing"
    /\ answer' = [user |-> "none", ok |-> FALSE]
    /\ lastOp' = "gateMount"
    /\ UNCHANGED <<wizardVars, adminVars, session>>

\* what both callbacks do with the session they are handed
OnSession(s) ==
    IF s = "none"
    THEN /\ isAdmin' = FALSE
         /\ loading' = FALSE
         /\ UNCHANGED lookups
    ELSE /\ lookups' = Append(lookups, s)
         /\ UNCHANGED <<isAdmin, loading>>

\* the auth client's session becomes s (sign-in, sign-out, token refresh,
\* initial session) and the client notifies its subscribers
AuthChange(s) ==
    /\ session' = s
    /\ IF mounted
       THEN /\ s # "none" => Len(lookups) < MaxLookups
            /\ OnSession(s)
       ELSE UNCHANGED <<isAdmin, loading, lookups>>
    /\ lastOp' = "authChange"
    /\ UNCHANGED <<wizardVars, adminVars, output, mounted, answer>>

\* lookups without its i-th entry
Without(q, i) == SubSeq(q, 1, i - 1) \o SubSeq(q, i + 1, Len(q))

\* getSession().then(...)
GetSessionResolve(i) ==
    /\ mounted
    /\ i \in DOMAIN lookups
    /\ lookups[i] = "getSession"
    /\ IF session = "none"
       THEN /\ isAdmin' = FALSE
            /\ loading' = FALSE
            /\ lookups' = Without(lookups, i)
       ELSE /\ lookups' = Append(Without(lookups, i), session)
            /\ UNCHANGED <<isAdmin, loading>>
    /\ lastOp' = "getSession"
    /\ UNCHANGED <<wizardVars, adminVars, session, output, mounted, answer>>

\* the timer callback after its await: rpc("has_role") answered, with an
\* error or with the role
LookupResolve(i, error) ==
    /\ mounted
    /\ i \in DOMAIN lookups
    /\ lookups[i] # "getSession"
    /\ LET ok == has_role(lookups[i]) /\ ~error
       IN  /\ isAdmin' = ok
           /\ answer' = [user |-> lookups[i], ok |-> ok]
    /\ loading' = FALSE
    /\ lookups' = Without(lookups, i)
    /\ lastOp' = "lookup"
    /\ UNCHANGED <<wizardVars, adminVars, session, output, mounted>>

\* React renders the gate with its current state; a rendered <Navigate>
\* leaves the route, which unmounts the gate
GateCommit ==
    /\ mounted
    /\ output # GateRender(loading, isAdmin)
    /\ output' = GateRender(loading, isAdmin)
    /\ mounted' = (GateRender(loading, isAdmin) # "redirect")
    /\ lookups' = IF GateRender(loading, isAdmin) = "redirect" THEN <<>> ELSE lookups
    /\ lastOp' = "gateRender"
    /\ UNCHANGED <<wizardVars, adminVars, session, loading, isAdmin, answer>>

InitGate ==
    /\ WizardUnmounted
    /\ AdminUnmounted
    /\ GateUnmounted
    /\ lastOp = "mount"

NextGate ==
    \/ GateMount
    \/ \E s \in Users \cup {"none"} : AuthChange(s)
    \/ \E i \in 1..MaxLookups : GetSessionResolve(i)
    \/ \E i \in 1..MaxLookups : \E error \in BOOLEAN : LookupResolve(i, error)
    \/ GateCommit

SpecGate == InitGate /\ [][NextGate]_vars


\* C23: whenever the gate commits a render other than the empty one, it
\* shows the children exactly if a session exists and the lookup that
\* resolved last was that session's and returned true without error;
\* otherwise it shows the redirect to the sign-in view.
C23_ResolvedGateRendersByRole ==
    [](lastOp = "gateRender" /\ output # "nothing" =>
          /\ output \in {"children", "redirect"}
          /\ output = "children" <=>
                (session # "none" /\ answer.user = session /\ answer.ok))

\* C24: while the lookup of the current session is pending and no lookup of
\* that session has resolved, the gate shows nothing: neither the redirect
\* nor the children admitted for an earlier session.
C24_LoadingWhileLookupPending ==
    [](/\ mounted
       /\ session # "none"
       /\ \E i \in DOMAIN lookups : lookups[i] = session
       /\ answer.user # session
       => loading /\ output = "nothing")

\* C25: while the auth client holds no session the mounted gate is not in
\* the admin state, and no render that shows the children is committed.
C25_SignedOutStaysUnauthenticated ==
    /\ [](mounted /\ session = "none" => ~isAdmin)
    /\ [][output' = "children" /\ output # "children" => session' # "none"]_vars


-----------------------------------------------------------------------------
(* The table onboarding_applications under its row-level policies, its      *)
(* column defaults and its BEFORE UPDATE trigger.  The caller of a          *)
(* statement is the identity of the auth client's session (auth.uid(),      *)
(* NULL without a session).                                                 *)

\* Rows the policy model lets the table hold.
MaxRows == 1
\* The latest reading of the backend's clock in the policy model.
MaxTime == 1

\* a column the statement does not supply (timestamps are clock readings)
Omitted == -1

\* the status values a statement supplies in the model
StatusInputs == {"pending", "approved"}

\* the timestamps a statement supplies in the model
TimeInputs == 0..MaxTime

\* the enum app_status rejects every other value
IsAppStatus(v) == v \in statusOptions

\* DEFAULT now() of submitted_at and updated_at
TimeOrNow(t) == IF t = Omitted THEN now ELSE t

\* DEFAULT 'pending'
StatusOrDefault(v) == IF v = "omitted" THEN "pending" ELSE v

\* INSERT policy "Anyone can insert applications": TO anon, authenticated
\* WITH CHECK (true)
CanInsert(uid, row) == TRUE

CanUpdateAnyAuthenticated(uid, row) == uid # "none"

\* UPDATE policies, both TO authenticated, their USING clauses combined by
\* OR: has_role(auth.uid(), 'admin') OR user_id = auth.uid(); a NULL
\* user_id equals nothing
CanUpdate(uid, row) ==
    /\ uid # "none"
    /\ has_role(uid) \/ row.user_id = uid

\* the WITH CHECK clauses of the same policies combined by OR:
\* (true) OR user_id = auth.uid()
UpdateCheck(uid, row) == TRUE \/ row.user_id = uid

\* update_updated_at_column(): NEW.updated_at = now()
update_updated_at_column(row) == [row EXCEPT !.updated_at = now]

\* the backend's clock advances
Tick ==
    /\ now < MaxTime
    /\ now' = now + 1
    /\ lastOp' = "tick"
    /\ UNCHANGED <<wizardVars, gateVars, table, search, status, sort, selected, data,
                   isLoading, isFetching, updates, updateCalls, toast, events, csv>>

\* INSERT INTO onboarding_applications by the session's identity, with any
\* of user_id, status, submitted_at, updated_at supplied or left out
SqlInsert(owner, st, submitted, updated) ==
    /\ Cardinality(DOMAIN table) < MaxRows
    /\ LET id == CHOOSE i \in 1..MaxRows :
                     i \notin DOMAIN table /\ \A j \in 1..(i - 1) : j \in DOMAIN table
           row == [user_id |-> owner,
                   status |-> StatusOrDefault(st),
                   submitted_at |-> TimeOrNow(submitted),
                   updated_at |-> TimeOrNow(updated)]
       IN  IF IsAppStatus(row.status) /\ CanInsert(session, row)
           THEN /\ table' = [i \in DOMAIN table \cup {id} |->
                               IF i = id THEN row ELSE table[i]]
                /\ lastOp' = IF st = "omitted" THEN "sqlInsertNoStatus"
                             ELSE "sqlInsert"
           ELSE /\ lastOp' = "sqlInsertRefused"
                /\ UNCHANGED table
    /\ UNCHANGED <<wizardVars, gateVars, now, search, status, sort, selected, data,
                   isLoading, isFetching, updates, updateCalls, toast, events, csv>>

\* UPDATE onboarding_applications SET ... WHERE id = ... by the session's
\* identity: the policies choose the rows, the trigger stamps them
SqlUpdate(id, st, submitted) ==
    /\ id \in DOMAIN table
    /\ LET old == table[id]
           new == [old EXCEPT
                     !.status = IF st = "omitted" THEN old.status ELSE st,
                     !.submitted_at = IF submitted = Omitted THEN old.submitted_at
                                      ELSE submitted]
       IN  IF /\ IsAppStatus(new.status)
              /\ CanUpdate(session, old)
              /\ UpdateCheck(session, update_updated_at_column(new))
           THEN /\ table' = [table EXCEPT ![id] = update_updated_at_column(new)]
                /\ lastOp' = "sqlUpdate"
           ELSE /\ lastOp' = "sqlUpdateRefused"
                /\ UNCHANGED table
    /\ UNCHANGED <<wizardVars, gateVars, now, search, status, sort, selected, data,
                   isLoading, isFetching, updates, updateCalls, toast, events, csv>>

InitRls ==
    /\ WizardUnmounted
    /\ AdminUnmounted
    /\ GateUnmounted
    /\ lastOp = "mount"

NextRls ==
    \/ \E s \in Users \cup {"none"} : AuthChange(s)
    \/ Tick
    \/ \E owner \in Users \cup {"none"} :
          \E st \in StatusInputs \cup {"omitted", "bogus"} :
             \E submitted, updated \in TimeInputs \cup {Omitted} :
                SqlInsert(owner, st, submitted, updated)
    \/ \E id \in 1..MaxRows :
          \E st \in StatusInputs \cup {"omitted", "bogus"} :
             \E submitted \in TimeInputs \cup {Omitted} :
                SqlUpdate(id, st, submitted)

SpecRls == InitRls /\ [][NextRls]_vars

\* C26: a statement changes a record only if its caller holds the admin
\* role or is the record's user_id (never a caller without a session, never
\* a non-admin on another's or an anonymous record); the status of every
\* record is one of the four values; a record inserted without a status is
\* pending.
C26_StatusChangedOnlyByAdminOrOwner ==
    /\ [][\A id \in DOMAIN table \cap DOMAIN table' :
            table'[id] # table[id] =>
               /\ session # "none"
               /\ session \in Admins \/ table[id].user_id = session]_vars
    /\ [](\A id \in DOMAIN table :
            table[id].status \in {"pending", "in_review", "approved", "rejected"})
    /\ [][lastOp' = "sqlInsertNoStatus" =>
            \A id \in DOMAIN table' \ DOMAIN table : table'[id].status = "pending"]_vars

C26_Witness ==
    /\ lastOp = "sqlUpdateRefused"
    /\ session = "guest"
    /\ \E id \in DOMAIN table :
          /\ table[id].user_id = "none"
          /\ table[id].status = "approved"
          /\ table[id].updated_at > table[id].submitted_at

\* C27: every record has updated_at >= submitted_at, and no statement
\* changes the submitted_at of an existing record.
C27_TimestampsOrdered ==
    /\ [](\A id \in DOMAIN table : table[id].updated_at >= table[id].submitted_at)
    /\ [][\A id \in DOMAIN table \cap DOMAIN table' :
            table'[id].submitted_at = table[id].submitted_at]_vars


-----------------------------------------------------------------------------
(* SpecRace: the Continue button pressed again while an earlier goNext is   *)
(* suspended at its await (the button is not disabled meanwhile).           *)

\* goNext invocations the model lets be suspended at once.
MaxPending == 2

\* a click on Continue, whatever is pending
GoNextReentrant == Len(pending) < MaxPending /\ GoNextCall

NextRace ==
    \/ \E f \in StepFields(0) : \E v \in Samples(f) : FieldChange(f, v)
    \/ GoNextReentrant
    \/ GoNextResolve
    \/ GoBack

SpecRace == Init /\ [][NextRace]_vars

\* C28: the step index increases only in the continuation of a goNext, by
\* exactly one, and only after the fields of the step being left were
\* validated successfully by that goNext.
C28_AdvanceByOneAfterValidation ==
    [][step' > step =>
          /\ step' = step + 1
          /\ lastOp' = "advanced"
          /\ Head(pending).valid
          /\ Head(pending).step = step]_vars

\* C29: on every step after the first, and once the application is
\* submitted, the draft satisfies the eligibility predicate.
C29_LaterStepsAreEligible ==
    [](step > 0 \/ isSuccess =>
          /\ draft.ownsVehicle = "yes"
          /\ draft.eligibilityCapacityTons >= MinCapacity
          /\ draft.eligibilityCapacityTons <= MaxCapacity
          /\ draft.hasRequiredDocs = "yes")


\* C30: goNext takes the wizard off the vehicle step only if the trucks are
\* as many as the counter says, each has a type and a registration, and a
\* document is attached; a goNext that finds an incomplete truck leaves the
\* step alone and shows the first incomplete truck.
C30_VehicleStepGate ==
    /\ [][step = 2 /\ step' # step /\ lastOp' = "advanced" =>
            /\ Len(draft.trucks) = draft.numberOfTrucks
            /\ \A i \in 1..Len(draft.trucks) :
                  /\ draft.trucks[i].vehicleType # <<>>
                  /\ draft.trucks[i].registrationNumber # <<>>
            /\ Len(draft.vehicleDocuments) >= 1]_vars
    /\ [][lastOp' = "incomplete" =>
            /\ step' = step
            /\ \E i \in 0..(Len(draft.trucks) - 1) :
                  /\ currentTruckIndex' = i
                  /\ draft.trucks[i + 1].vehicleType = <<>>
                        \/ draft.trucks[i + 1].registrationNumber = <<>>
                  /\ \A j \in 0..(i - 1) :
                        /\ draft.trucks[j + 1].vehicleType # <<>>
                        /\ draft.trucks[j + 1].registrationNumber # <<>>]_vars

=============================================================================
